---------------------------- MODULE Spec2Model ----------------------------
(***************************************************************************)
(* Model of src/utils/receipt.ts: the thermal-receipt line builder         *)
(* (buildStandardReceiptLines, buildSaleReceiptLines), its layout helpers  *)
(* (wrapTextToWidth, pushResponsiveColumns, toCenteredLine) and the money  *)
(* helpers it uses (toTRY, fromTRY, formatReceiptMoney, formatPercentage). *)
(*                                                                         *)
(* Representation.                                                         *)
(*  - A JS string is a sequence of one-character strings, so that trim,    *)
(*    slice, split and length are computed, not assumed.  The Turkish      *)
(*    letters of the literal labels are written with their ASCII base      *)
(*    letter (same length in UTF-16 units): "Odenen" stands for the paid   *)
(*    label, "Borc" for the debt label, "Indirim" for the discount label.  *)
(*  - A JS number is an exact rational [n, d] in lowest terms with d > 0;  *)
(*    NaN is [n |-> 0, d |-> 0] and stands for every non-finite number.    *)
(*    Binary rounding error of doubles is not modelled; toFixed rounds the *)
(*    exact value half up.                                                 *)
(*  - An optional value is a sequence of length <= 1: << >> is undefined   *)
(*    (or null), <<v>> is v.                                               *)
(***************************************************************************)
EXTENDS Integers, Sequences, FiniteSets, TLC

VARIABLES pc, opts, lines, calls, mcall, mret, wcall, wret

vars == <<pc, opts, lines, calls, mcall, mret, wcall, wret>>

(***************************************************************************)
(* Bounds of the model.                                                    *)
(***************************************************************************)
MaxTextLen == 5
MaxWrapWidth == 4
MaxItems == 2

(***************************************************************************)
(* Numbers.                                                                *)
(***************************************************************************)
RECURSIVE GCD(_, _)
GCD(a, b) ==
    IF b = 0 THEN a ELSE GCD(b, a % b)

IAbs(k) ==
    IF k < 0 THEN -k ELSE k

NaN ==
    [n |-> 0, d |-> 0]

R(num, den) ==
    LET g == GCD(IAbs(num), den)
    IN  [n |-> num \div g, d |-> den \div g]

Zero ==
    R(0, 1)

IsFinite(v) ==
    v.d # 0

RMul(a, b) ==
    IF IsFinite(a) /\ IsFinite(b) THEN R(a.n * b.n, a.d * b.d) ELSE NaN

RDiv(a, b) ==
    IF IsFinite(a) /\ IsFinite(b) /\ b.n # 0
    THEN IF b.n > 0 THEN R(a.n * b.d, a.d * b.n) ELSE R(-(a.n * b.d), -(a.d * b.n))
    ELSE NaN

RSub(a, b) ==
    IF IsFinite(a) /\ IsFinite(b) THEN R(a.n * b.d - b.n * a.d, a.d * b.d) ELSE NaN

RLt(a, b) ==
    IsFinite(a) /\ IsFinite(b) /\ a.n * b.d < b.n * a.d

RGe(a, b) ==
    IsFinite(a) /\ IsFinite(b) /\ a.n * b.d >= b.n * a.d

RAbs(a) ==
    [n |-> IAbs(a.n), d |-> a.d]

\* Math.max(a, b): NaN when either argument is NaN.
RMax(a, b) ==
    IF IsFinite(a) /\ IsFinite(b) THEN (IF RLt(a, b) THEN b ELSE a) ELSE NaN

\* JS truthiness of a number: false for 0 and NaN.
Truthy(v) ==
    IsFinite(v) /\ v.n # 0

\* Number.isFinite(value) ? Number(value) : 0
FiniteOrZero(v) ==
    IF IsFinite(v) THEN v ELSE Zero

\* round(|v| * scale) to the nearest integer, half up; v finite.
RoundScaled(v, scale) ==
    (2 * IAbs(v.n) * scale + v.d) \div (2 * v.d)

(***************************************************************************)
(* Strings as sequences of characters.                                     *)
(***************************************************************************)
Whitespace ==
    {" ", "\t"}

RECURSIVE TrimStart(_)
TrimStart(s) ==
    IF s # << >> /\ Head(s) \in Whitespace THEN TrimStart(Tail(s)) ELSE s

RECURSIVE TrimEnd(_)
TrimEnd(s) ==
    IF s # << >> /\ s[Len(s)] \in Whitespace
    THEN TrimEnd(SubSeq(s, 1, Len(s) - 1))
    ELSE s

Trim(s) ==
    TrimEnd(TrimStart(s))

\* value.slice(0, k)
Slice(s, k) ==
    SubSeq(s, 1, IF k < Len(s) THEN k ELSE Len(s))

RECURSIVE Repeat(_, _)
Repeat(c, k) ==
    IF k <= 0 THEN << >> ELSE <<c>> \o Repeat(c, k - 1)

Digit(k) ==
    <<"0", "1", "2", "3", "4", "5", "6", "7", "8", "9">>[k + 1]

RECURSIVE NatToStr(_)
NatToStr(k) ==
    IF k < 10 THEN <<Digit(k)>> ELSE NatToStr(k \div 10) \o <<Digit(k % 10)>>

\* String(v) for an integer-valued number (quantities).
IntToStr(k) ==
    IF k < 0 THEN <<"-">> \o NatToStr(-k) ELSE NatToStr(k)

\* Math.abs(v).toFixed(2)
ToFixed2(v) ==
    IF ~IsFinite(v) THEN <<"N", "a", "N">>
    ELSE LET c == RoundScaled(v, 100)
         IN  NatToStr(c \div 100) \o <<".", Digit((c % 100) \div 10), Digit(c % 10)>>

(***************************************************************************)
(* Currency codes (utils/money.ts) and their normalisation.                *)
(***************************************************************************)
Codes ==
    {"TRY", "USD", "EUR", "GBP"}

Undefined ==
    "undefined"

\* value.toUpperCase() on the currency strings the model supplies.
ToUpperCase(s) ==
    CASE s = "usd" -> "USD"
      [] s = "eur" -> "EUR"
      [] s = "xyz" -> "XYZ"
      [] OTHER -> s

normalizeCurrency(value) ==
    LET normalized == IF value = Undefined THEN "TRY" ELSE ToUpperCase(value)
    IN  IF normalized \in Codes THEN normalized ELSE "TRY"

CodeChars(code) ==
    CASE code = "TRY" -> <<"T", "R", "Y">>
      [] code = "USD" -> <<"U", "S", "D">>
      [] code = "EUR" -> <<"E", "U", "R">>
      [] code = "GBP" -> <<"G", "B", "P">>
      [] code = "XYZ" -> <<"X", "Y", "Z">>

\* A rate table is [present, tab]: present = FALSE is an undefined table,
\* tab maps the codes that have an entry to their rate.
NoRates ==
    [present |-> FALSE, tab |-> << >>]

RatesOf(tab) ==
    [present |-> TRUE, tab |-> tab]

\* const r = rates?.[code]; r && r > 0
ValidRate(code, rates) ==
    /\ rates.present
    /\ code \in DOMAIN rates.tab
    /\ Truthy(rates.tab[code])
    /\ RLt(Zero, rates.tab[code])

toTRY_NoFallback(amountFX, code, rates) ==
    IF ~Truthy(amountFX) THEN Zero
    ELSE IF code = "TRY" THEN amountFX
    ELSE IF ValidRate(code, rates) THEN RMul(amountFX, rates.tab[code]) ELSE amountFX

toTRY(amountFX, code, rates) ==
    IF ~Truthy(amountFX) THEN Zero
    ELSE IF code = "TRY" THEN amountFX
    ELSE IF ValidRate(code, rates) THEN RMul(amountFX, rates.tab[code]) ELSE Zero

fromTRY(amountTRY, code, rates) ==
    IF ~Truthy(amountTRY) THEN Zero
    ELSE IF code = "TRY" THEN amountTRY
    ELSE IF ValidRate(code, rates) THEN RDiv(amountTRY, rates.tab[code]) ELSE amountTRY

(***************************************************************************)
(* formatReceiptMoney, hasMeaningfulAmount, formatPercentage.              *)
(***************************************************************************)
formatReceiptMoney(value, currency) ==
    LET normalizedCurrency == IF currency = Undefined THEN "TRY" ELSE ToUpperCase(currency)
        displayCurrency == IF normalizedCurrency = "TRY" THEN <<"T", "L">>
                           ELSE CodeChars(normalizedCurrency)
        formatted == ToFixed2(value) \o <<" ">> \o displayCurrency
    IN  IF RLt(value, Zero) THEN <<"-">> \o formatted ELSE formatted

Epsilon ==
    R(5, 1000)

hasMeaningfulAmount(value) ==
    RGe(RAbs(value), Epsilon)

\* The result is an optional string: << >> is null.
formatPercentage(value) ==
    IF ~IsFinite(value) THEN << >>
    ELSE LET c == RoundScaled(value, 100)
         IN  IF c % 100 = 0 THEN <<NatToStr(c \div 100)>>
             ELSE IF c % 10 = 0
                  THEN <<NatToStr(c \div 100) \o <<".", Digit((c % 100) \div 10)>>>>
                  ELSE <<NatToStr(c \div 100) \o <<".", Digit((c % 100) \div 10), Digit(c % 10)>>>>

(***************************************************************************)
(* wrapTextToWidth.                                                        *)
(***************************************************************************)
\* safe.split(/\s+/): the maximal runs of non-whitespace, with an empty
\* string where the text starts or ends with whitespace.
RECURSIVE SplitFrom(_, _, _)
SplitFrom(s, i, cur) ==
    IF i > Len(s) THEN <<cur>>
    ELSE IF s[i] \in Whitespace
         THEN IF i > 1 /\ s[i - 1] \in Whitespace
              THEN SplitFrom(s, i + 1, cur)
              ELSE <<cur>> \o SplitFrom(s, i + 1, << >>)
         ELSE SplitFrom(s, i + 1, cur \o <<s[i]>>)

SplitWhitespace(s) ==
    SplitFrom(s, 1, << >>)

\* The forEach over words: st = [result, current].
RECURSIVE WrapWords(_, _, _, _)
WrapWords(words, i, width, st) ==
    IF i > Len(words) THEN st
    ELSE LET word == words[i]
             joined == st.current \o <<" ">> \o word
         IN  IF word = << >> THEN WrapWords(words, i + 1, width, st)
             ELSE IF st.current = << >>
                  THEN WrapWords(words, i + 1, width, [st EXCEPT !.current = word])
             ELSE IF Len(joined) <= width
                  THEN WrapWords(words, i + 1, width, [st EXCEPT !.current = joined])
             ELSE WrapWords(words, i + 1, width,
                            [result |-> Append(st.result, st.current), current |-> word])

wrapTextToWidth(value, width) ==
    LET safe == Trim(value)
    IN  IF safe = << >> THEN << >>
        ELSE IF Len(safe) <= width THEN <<safe>>
        ELSE LET st == WrapWords(SplitWhitespace(safe), 1, width,
                                 [result |-> << >>, current |-> << >>])
             IN  IF st.current # << >> THEN Append(st.result, st.current) ELSE st.result

(***************************************************************************)
(* Receipt content lines.  Every line is a record with the same fields;   *)
(* a field the source leaves out of the object literal is Undefined (a    *)
(* string field), << >> (a text field) or 0 (a number field).             *)
(***************************************************************************)
BlankLine ==
    [type |-> Undefined, text |-> << >>, left |-> << >>, right |-> << >>,
     preset |-> Undefined, align |-> Undefined, char |-> Undefined,
     count |-> 0, length |-> 0, indent |-> 0, width |-> 0]

TextLine(text, preset) ==
    [BlankLine EXCEPT !.type = "text", !.text = text, !.preset = preset]

\* { text, align, preset } pushed without a type field.
UntypedLine(text, align, preset) ==
    [BlankLine EXCEPT !.text = text, !.align = align, !.preset = preset]

ColumnsLine(left, right, indent, width, preset) ==
    [BlankLine EXCEPT !.type = "columns", !.left = left, !.right = right,
                      !.indent = indent, !.width = width, !.preset = preset]

SeparatorLine(char, length) ==
    [BlankLine EXCEPT !.type = "separator", !.char = char, !.length = length]

EmptyLine(count) ==
    [BlankLine EXCEPT !.type = "empty", !.count = count]

(***************************************************************************)
(* Literal texts of the builder (ASCII base letters, see the header).      *)
(***************************************************************************)
DefaultTitle ==
    <<"S", "a", "t", "i", "s", " ", "F", "i", "s", "i">>

DefaultItemsEmptyMessage ==
    <<"U", "r", "u", "n", " ", "b", "u", "l", "u", "n", "a", "m", "a", "d", "i", ".">>

DefaultThankYouMessage ==
    <<"T", "e", "s", "e", "k", "k", "u", "r", " ", "e", "d", "e", "r", "i", "z", "!">>

LabelOrderNumber ==
    <<"S", "i", "p", "a", "r", "i", "s", " ", "N", "o">>

LabelDate ==
    <<"T", "a", "r", "i", "h">>

LabelCustomer ==
    <<"M", "u", "s", "t", "e", "r", "i">>

LabelSeller ==
    <<"S", "a", "t", "i", "c", "i">>

LabelOrderInfo ==
    <<"S", "i", "p", "a", "r", "i", "s", " ", "B", "i", "l", "g", "i", "l", "e", "r", "i">>

DefaultItemName ==
    <<"U", "r", "u", "n">>

LabelPaymentSummary ==
    <<"O", "d", "e", "m", "e", " ", "O", "z", "e", "t", "i">>

LabelSubtotal ==
    <<"A", "r", "a", " ", "T", "o", "p", "l", "a", "m">>

LabelDiscount ==
    <<"I", "n", "d", "i", "r", "i", "m">>

LabelTax ==
    <<"K", "D", "V">>

LabelPaid ==
    <<"O", "d", "e", "n", "e", "n">>

LabelChange ==
    <<"P", "a", "r", "a", " ", "U", "s", "t", "u">>

LabelGrandTotal ==
    <<"G", "e", "n", "e", "l", " ", "T", "o", "p", "l", "a", "m">>

LabelDebt ==
    <<"B", "o", "r", "c">>

MinAvailableWidth == 8

FeedLines == 30

(***************************************************************************)
(* Options helpers.  o is the options record buildStandardReceiptLines     *)
(* receives.                                                               *)
(***************************************************************************)
\* An absent number behaves as NaN in arithmetic and in Number.isFinite.
Num(opt) ==
    IF opt = << >> THEN NaN ELSE opt[1]

IMax(a, b) ==
    IF a < b THEN b ELSE a

\* subtotal, totalDiscount and totalTax are optional for buildSaleReceiptLines.
subtotalOf(o) ==
    Num(o.subtotal)

totalDiscountOf(o) ==
    Num(o.totalDiscount)

totalTaxOf(o) ==
    Num(o.totalTax)

resolvedTargetCurrency(o) ==
    normalizeCurrency(o.targetCurrency)

convertAmount_IgnoreMissingTable(value, from, o) ==
    LET numeric == FiniteOrZero(value)
        sourceCurrency == normalizeCurrency(IF from = Undefined THEN o.currency ELSE from)
        target == resolvedTargetCurrency(o)
    IN  IF sourceCurrency = target \/ numeric = Zero THEN numeric
        ELSE IF target = "TRY" THEN toTRY(numeric, sourceCurrency, o.rates)
        ELSE IF sourceCurrency = "TRY" THEN fromTRY(numeric, target, o.rates)
        ELSE fromTRY(toTRY(numeric, sourceCurrency, o.rates), target, o.rates)

convertAmount(value, from, o) ==
    LET numeric == FiniteOrZero(value)
        sourceCurrency == normalizeCurrency(IF from = Undefined THEN o.currency ELSE from)
        target == resolvedTargetCurrency(o)
    IN  IF sourceCurrency = target \/ ~o.rates.present \/ numeric = Zero THEN numeric
        ELSE IF target = "TRY" THEN toTRY(numeric, sourceCurrency, o.rates)
        ELSE IF sourceCurrency = "TRY" THEN fromTRY(numeric, target, o.rates)
        ELSE fromTRY(toTRY(numeric, sourceCurrency, o.rates), target, o.rates)

formatDisplayMoney(value, o) ==
    formatReceiptMoney(value, resolvedTargetCurrency(o))

convertSummaryAmount(value, currencyOverride, o) ==
    IF o.summaryAlreadyTarget THEN FiniteOrZero(value)
    ELSE convertAmount(value, currencyOverride, o)

toCenteredLine(value, preset, o) ==
    LET width == IMax(o.receiptWidth, 1)
        text == Slice(Trim(value), width)
        padding == IMax(width - Len(text), 0)
        left == padding \div 2
        right == padding - left
    IN  TextLine(Repeat(" ", left) \o text \o Repeat(" ", right), preset)

availableWidth(o) ==
    IMax(o.receiptWidth - o.receiptIndent, MinAvailableWidth)

(***************************************************************************)
(* The builder's state while it runs: st = [lines, calls].  lines is the   *)
(* array being built; calls records every call of pushResponsiveColumns:   *)
(* its arguments, the length of lines when it was called and the lines it  *)
(* pushed.                                                                 *)
(***************************************************************************)
EmptyState ==
    [lines |-> << >>, calls |-> << >>]

Push(st, new) ==
    [st EXCEPT !.lines = st.lines \o new]

\* The lines one call of pushResponsiveColumns pushes.
ResponsiveLines_OffByOne(left, right, preset, o) ==
    LET safeLeft == Trim(left)
        safeRight == Trim(right)
        estimatedLength == Len(safeLeft) + Len(safeRight) + 2
    IN  IF estimatedLength >= availableWidth(o)
        THEN (IF safeLeft # << >> THEN <<TextLine(safeLeft, preset)>> ELSE << >>)
             \o (IF safeRight # << >>
                 THEN <<ColumnsLine(<< >>, safeRight, o.receiptIndent, o.receiptWidth, preset)>>
                 ELSE << >>)
        ELSE <<ColumnsLine(safeLeft, safeRight, o.receiptIndent, o.receiptWidth, preset)>>

ResponsiveLines(left, right, preset, o) ==
    LET safeLeft == Trim(left)
        safeRight == Trim(right)
        estimatedLength == Len(safeLeft) + Len(safeRight) + 2
    IN  IF estimatedLength > availableWidth(o)
        THEN (IF safeLeft # << >> THEN <<TextLine(safeLeft, preset)>> ELSE << >>)
             \o (IF safeRight # << >>
                 THEN <<ColumnsLine(<< >>, safeRight, o.receiptIndent, o.receiptWidth, preset)>>
                 ELSE << >>)
        ELSE <<ColumnsLine(safeLeft, safeRight, o.receiptIndent, o.receiptWidth, preset)>>

pushResponsiveColumns(st, left, right, preset, o) ==
    LET out == ResponsiveLines(left, right, preset, o)
    IN  [lines |-> st.lines \o out,
         calls |-> Append(st.calls, [left |-> left, right |-> right, preset |-> preset,
                                     at |-> Len(st.lines), out |-> out])]

RECURSIVE PushWrapped(_, _, _, _)
PushWrapped(st, wrapped, i, o) ==
    IF i > Len(wrapped) THEN st
    ELSE PushWrapped(pushResponsiveColumns(st, << >>, wrapped[i], Undefined, o), wrapped, i + 1, o)

\* value is an optional string.
addMetaRow(st, label, value, o) ==
    IF value = << >> \/ value = << << >> >> THEN st
    ELSE LET wrapped == wrapTextToWidth(value[1], availableWidth(o))
         IN  IF Len(wrapped) = 0 THEN st
             ELSE PushWrapped(pushResponsiveColumns(st, label, wrapped[1], Undefined, o),
                              wrapped, 2, o)

(***************************************************************************)
(* buildStandardReceiptLines, one operator per section of its body.        *)
(***************************************************************************)
StepTenantHeader(st, o) ==
    IF Len(o.tenantHeaderLines) # 0
    THEN Push(st, o.tenantHeaderLines \o <<SeparatorLine(Undefined, o.receiptWidth)>>)
    ELSE st

\* title = "Satis Fisi" when undefined; an empty title is skipped.
TitleOf(o) ==
    IF o.title = << >> THEN DefaultTitle ELSE o.title[1]

StepTitle(st, o) ==
    IF TitleOf(o) # << >>
    THEN Push(st, <<toCenteredLine(TitleOf(o), "medium", o),
                    SeparatorLine(Undefined, o.receiptWidth)>>)
    ELSE st

\* A truthy optional string: neither undefined nor "".
Present(opt) ==
    opt # << >> /\ opt[1] # << >>

metaRows(o) ==
    (IF Present(o.orderNumber)
     THEN <<[label |-> LabelOrderNumber, value |-> o.orderNumber]>> ELSE << >>)
    \o (IF Present(o.createdAtText)
        THEN <<[label |-> LabelDate, value |-> o.createdAtText]>> ELSE << >>)
    \o (IF Present(o.customerName)
        THEN <<[label |-> LabelCustomer, value |-> o.customerName]>> ELSE << >>)
    \o <<[label |-> LabelSeller,
          value |-> IF Present(o.sellerName) THEN o.sellerName ELSE <<LabelSeller>>]>>
    \o o.extraMetaRows

RECURSIVE AddMetaRows(_, _, _, _)
AddMetaRows(st, rows, i, o) ==
    IF i > Len(rows) THEN st
    ELSE AddMetaRows(addMetaRow(st, rows[i].label, rows[i].value, o), rows, i + 1, o)

StepOrderInfo(st, o) ==
    IF Len(metaRows(o)) # 0
    THEN Push(AddMetaRows(Push(st, <<toCenteredLine(LabelOrderInfo, "medium", o),
                                     SeparatorLine(".", o.receiptWidth)>>),
                          metaRows(o), 1, o),
              <<SeparatorLine(Undefined, o.receiptWidth)>>)
    ELSE st

ItemsEmptyMessageOf(o) ==
    IF o.itemsEmptyMessage = << >> THEN DefaultItemsEmptyMessage ELSE o.itemsEmptyMessage[1]

lineSubtotal(item) ==
    IF item.subtotal # << >> THEN item.subtotal[1]
    ELSE RMul(item.unitPrice, R(item.quantity, 1))

ItemLeftText(item, o) ==
    IntToStr(item.quantity) \o <<" ", "x", " ">>
        \o formatDisplayMoney(convertAmount(item.unitPrice, item.currency, o), o)

ItemRightText(item, o) ==
    formatDisplayMoney(convertAmount(lineSubtotal(item), item.currency, o), o)

PushItem_BlankBeforeEvery(st, item, index, o) ==
    pushResponsiveColumns(
        Push(Push(st, <<EmptyLine(1)>>),
             <<UntypedLine(IF item.name # << >> THEN item.name ELSE DefaultItemName,
                           "left", "medium")>>),
        ItemLeftText(item, o), ItemRightText(item, o), Undefined, o)

\* The body of safeItems.forEach; index is the 0-based index of the item.
PushItem(st, item, index, o) ==
    pushResponsiveColumns(
        Push(IF index > 0 THEN Push(st, <<EmptyLine(1)>>) ELSE st,
             <<UntypedLine(IF item.name # << >> THEN item.name ELSE DefaultItemName,
                           "left", "medium")>>),
        ItemLeftText(item, o), ItemRightText(item, o), Undefined, o)

RECURSIVE PushItems(_, _, _, _)
PushItems(st, items, i, o) ==
    IF i > Len(items) THEN st
    ELSE PushItems(PushItem(st, items[i], i - 1, o), items, i + 1, o)

\* safeItems = items ?? []: an undefined list is the empty list.
StepItems(st, o) ==
    IF Len(o.items) = 0
    THEN Push(st, <<UntypedLine(ItemsEmptyMessageOf(o), "center", Undefined)>>)
    ELSE PushItems(st, o.items, 1, o)

StepSummaryHeader(st, o) ==
    Push(st, <<SeparatorLine(Undefined, o.receiptWidth),
               toCenteredLine(LabelPaymentSummary, "medium", o),
               SeparatorLine(Undefined, o.receiptWidth)>>)

StepSubtotal(st, o) ==
    IF hasMeaningfulAmount(subtotalOf(o))
    THEN pushResponsiveColumns(st, LabelSubtotal,
             formatDisplayMoney(convertSummaryAmount(subtotalOf(o), Undefined, o), o),
             "medium", o)
    ELSE st

PercentLabel(label, percent) ==
    IF percent # << >> /\ percent[1] # << >>
    THEN label \o <<" ", "(", "%">> \o percent[1] \o <<")">>
    ELSE label

discountLabel_AlwaysPercent(o) ==
    PercentLabel(LabelDiscount,
                 formatPercentage(RMul(RDiv(totalDiscountOf(o), subtotalOf(o)), R(100, 1))))

discountLabel(o) ==
    PercentLabel(LabelDiscount,
                 IF hasMeaningfulAmount(subtotalOf(o))
                 THEN formatPercentage(RMul(RDiv(totalDiscountOf(o), subtotalOf(o)), R(100, 1)))
                 ELSE << >>)

StepDiscount(st, o) ==
    IF hasMeaningfulAmount(totalDiscountOf(o))
    THEN pushResponsiveColumns(st, discountLabel(o),
             <<"-">> \o formatDisplayMoney(convertSummaryAmount(totalDiscountOf(o), Undefined, o), o),
             Undefined, o)
    ELSE st

taxBaseAmount(o) ==
    RMax(RSub(subtotalOf(o), totalDiscountOf(o)), Zero)

taxLabel(o) ==
    PercentLabel(LabelTax,
                 IF hasMeaningfulAmount(taxBaseAmount(o))
                 THEN formatPercentage(RMul(RDiv(totalTaxOf(o), taxBaseAmount(o)), R(100, 1)))
                 ELSE << >>)

StepTax(st, o) ==
    IF hasMeaningfulAmount(totalTaxOf(o))
    THEN pushResponsiveColumns(st, taxLabel(o),
             formatDisplayMoney(convertSummaryAmount(totalTaxOf(o), Undefined, o), o),
             Undefined, o)
    ELSE st

totalDisplay(o) ==
    convertSummaryAmount(o.total, Undefined, o)

\* paid ?? total
paidRaw(o) ==
    IF o.paid # << >> THEN o.paid[1] ELSE o.total

resolvedPaid(o) ==
    convertSummaryAmount(paidRaw(o), o.paidCurrency, o)

remainingRaw(o) ==
    IF o.remaining # << >> THEN RMax(o.remaining[1], Zero)
    ELSE RMax(RSub(o.total, paidRaw(o)), Zero)

resolvedRemaining(o) ==
    convertSummaryAmount(remainingRaw(o), Undefined, o)

hasOutstandingDebt_FromPaid(o) ==
    hasMeaningfulAmount(RSub(totalDisplay(o), resolvedPaid(o)))

hasOutstandingDebt(o) ==
    hasMeaningfulAmount(resolvedRemaining(o))

displayPaidAmount_AlwaysPaid(o) ==
    resolvedPaid(o)

displayPaidAmount(o) ==
    IF hasOutstandingDebt(o) THEN totalDisplay(o) ELSE resolvedPaid(o)

StepPaid(st, o) ==
    pushResponsiveColumns(st, LabelPaid, formatDisplayMoney(displayPaidAmount(o), o),
                          Undefined, o)

resolvedChange(o) ==
    IF o.changeAmount # << >> THEN convertSummaryAmount(o.changeAmount[1], Undefined, o)
    ELSE RMax(RSub(resolvedPaid(o), totalDisplay(o)), Zero)

StepChange(st, o) ==
    IF hasMeaningfulAmount(resolvedChange(o))
    THEN pushResponsiveColumns(st, LabelChange, formatDisplayMoney(resolvedChange(o), o),
                               Undefined, o)
    ELSE st

StepGrandTotal(st, o) ==
    Push(st, <<SeparatorLine(".", o.receiptWidth),
               toCenteredLine(LabelGrandTotal, "medium", o),
               UntypedLine(formatDisplayMoney(totalDisplay(o), o), Undefined, "large")>>)

StepDebt(st, o) ==
    IF ~hasOutstandingDebt(o) /\ hasMeaningfulAmount(resolvedRemaining(o))
    THEN pushResponsiveColumns(st, LabelDebt, formatDisplayMoney(resolvedRemaining(o), o),
                               Undefined, o)
    ELSE st

\* thankYouMessage = "Tesekkur ederiz!" when undefined; "" (or null) is skipped.
ThankYouOf(o) ==
    IF o.thankYouMessage = << >> THEN DefaultThankYouMessage ELSE o.thankYouMessage[1]

StepFooter_FeedFirst(st, o) ==
    Push(st, <<EmptyLine(FeedLines)>>
             \o (IF ThankYouOf(o) # << >>
                 THEN <<toCenteredLine(ThankYouOf(o), Undefined, o)>> ELSE << >>)
             \o <<EmptyLine(1)>>)

StepFooter(st, o) ==
    Push(st, <<EmptyLine(1)>>
             \o (IF ThankYouOf(o) # << >>
                 THEN <<toCenteredLine(ThankYouOf(o), Undefined, o)>> ELSE << >>)
             \o <<EmptyLine(FeedLines)>>)

\* The final builder state for options o.
buildStandardReceiptLines(o) ==
    LET s1 == StepTenantHeader(EmptyState, o)
        s2 == StepTitle(s1, o)
        s3 == StepOrderInfo(s2, o)
        s4 == StepItems(s3, o)
        s5 == StepSummaryHeader(s4, o)
        s6 == StepSubtotal(s5, o)
        s7 == StepDiscount(s6, o)
        s8 == StepTax(s7, o)
        s9 == StepPaid(s8, o)
        s10 == StepChange(s9, o)
        s11 == StepGrandTotal(s10, o)
        s12 == StepDebt(s11, o)
    IN  StepFooter(s12, o)

\* The options buildSaleReceiptLines passes on: subtotal, discount and tax
\* default to 0, title and thank-you message to their defaults, paid to
\* total and remaining to max(total - paid, 0).
SaleOptions(o) ==
    LET paid == IF o.paid # << >> THEN o.paid[1] ELSE o.total
    IN  [o EXCEPT !.title = <<TitleOf(o)>>,
                  !.thankYouMessage = <<ThankYouOf(o)>>,
                  !.subtotal = IF o.subtotal = << >> THEN <<Zero>> ELSE o.subtotal,
                  !.totalDiscount = IF o.totalDiscount = << >> THEN <<Zero>>
                                    ELSE o.totalDiscount,
                  !.totalTax = IF o.totalTax = << >> THEN <<Zero>> ELSE o.totalTax,
                  !.paid = <<paid>>,
                  !.remaining = IF o.remaining # << >> THEN o.remaining
                                ELSE <<RMax(RSub(o.total, paid), Zero)>>]

(***************************************************************************)
(* Inputs.                                                                 *)
(***************************************************************************)
FullRates ==
    RatesOf([USD |-> R(2, 1), EUR |-> R(4, 1), GBP |-> R(5, 1)])

\* A table that has no EUR and no GBP entry.
PartialRates ==
    RatesOf([USD |-> R(2, 1)])

\* A table whose entries are all unusable: 0, negative, NaN.
BadRates ==
    RatesOf([USD |-> Zero, EUR |-> R(-4, 1), GBP |-> NaN])

ItemTea ==
    [name |-> <<"C", "a", "y">>, quantity |-> 2, unitPrice |-> R(25, 1),
     currency |-> "TRY", subtotal |-> << >>]

ItemUnnamed ==
    [name |-> << >>, quantity |-> 1, unitPrice |-> R(10, 1),
     currency |-> "usd", subtotal |-> <<R(12, 1)>>]

ItemLongName ==
    [name |-> <<"F", "i", "l", "t", "r", "e", " ", "K", "a", "h", "v", "e", " ", "B", "u", "y", "u", "k", " ", "B", "o", "y">>, quantity |-> 12, unitPrice |-> R(1999, 100),
     currency |-> "EUR", subtotal |-> << >>]

ItemSet ==
    {ItemTea, ItemUnnamed, ItemLongName}

RECURSIVE SeqsUpTo(_, _)
SeqsUpTo(S, k) ==
    IF k = 0 THEN {<< >>}
    ELSE LET shorter == SeqsUpTo(S, k - 1)
         IN  shorter \cup {Append(q, x) : q \in {r \in shorter : Len(r) = k - 1}, x \in S}

TenantHeader ==
    <<TextLine(<<"A", "C", "M", "E">>, "large"), TextLine(<<"I", "z", "m", "i", "r">>, Undefined)>>

ExtraRowShort ==
    <<[label |-> <<"N", "o", "t">>, value |-> <<<<"t", "a", "m">>>>]>>

\* A padded label, a value that wraps, and a row whose value is blank.
ExtraRowsLong ==
    <<[label |-> <<" ", "M", "a", "s", "a", " ", "N", "u", "m", "a", "r", "a", "s", "i", " ">>, value |-> <<<<"b", "a", "h", "c", "e", " ", "k", "a", "t", "i", " ", " ", "o", "n", " ", "s", "i", "r", "a", " ", "1", "2">>>>],
      [label |-> <<"K", "a", "s", "a">>, value |-> <<<<" ", " ">>>>]>>

\* The spec's end-to-end scenario: width 32, indent 1, one item, paid in full.
BaseOptions ==
    [tenantHeaderLines |-> << >>, title |-> << >>, orderNumber |-> << >>,
     createdAtText |-> << >>, customerName |-> << >>, sellerName |-> << >>,
     extraMetaRows |-> << >>, items |-> <<ItemTea>>, itemsEmptyMessage |-> << >>,
     subtotal |-> <<R(50, 1)>>, totalDiscount |-> <<Zero>>, totalTax |-> <<Zero>>,
     total |-> R(50, 1), paid |-> <<R(50, 1)>>, remaining |-> <<Zero>>,
     thankYouMessage |-> << >>, receiptWidth |-> 32, receiptIndent |-> 1,
     currency |-> Undefined, changeAmount |-> << >>, targetCurrency |-> Undefined,
     rates |-> NoRates, paidCurrency |-> Undefined, summaryAlreadyTarget |-> FALSE]

\* Payment figures: total, paid, remaining, change and their conversion.
InitPayment ==
    \E t \in {R(100, 1), Zero, NaN},
       p \in {<< >>, <<R(40, 1)>>, <<R(100, 1)>>, <<R(150, 1)>>},
       r \in {<< >>, <<R(60, 1)>>, <<Zero>>, <<R(-5, 1)>>, <<R(4, 1000)>>, <<NaN>>},
       c \in {<< >>, <<R(50, 1)>>, <<R(-5, 1)>>, <<R(4, 1000)>>},
       pcur \in {Undefined, "USD"},
       rt \in {NoRates, FullRates},
       tgt \in {Undefined, "EUR"},
       sat \in BOOLEAN :
        opts = [BaseOptions EXCEPT !.subtotal = <<t>>, !.total = t, !.paid = p,
                                   !.remaining = r, !.changeAmount = c,
                                   !.paidCurrency = pcur, !.rates = rt,
                                   !.targetCurrency = tgt, !.summaryAlreadyTarget = sat]

\* Subtotal, discount, tax and change rows.
InitDiscount ==
    \E sb \in {<< >>, <<Zero>>, <<R(100, 1)>>, <<R(4, 1000)>>, <<R(3, 1)>>, <<R(-80, 1)>>},
       ds \in {<< >>, <<Zero>>, <<R(10, 1)>>, <<R(-10, 1)>>, <<R(5, 1000)>>,
               <<R(4, 1000)>>, <<R(1, 1)>>},
       tx \in {<< >>, <<R(18, 1)>>},
       c \in {<< >>, <<R(5, 1)>>},
       w \in {16, 32},
       rt \in {NoRates, FullRates},
       tgt \in {Undefined, "EUR"} :
        opts = [BaseOptions EXCEPT !.subtotal = sb, !.totalDiscount = ds, !.totalTax = tx,
                                   !.changeAmount = c, !.receiptWidth = w, !.rates = rt,
                                   !.targetCurrency = tgt]

\* The summary figures of a sale with a discount, tax and change.
FullSummary ==
    [subtotal |-> <<R(100, 1)>>, totalDiscount |-> <<R(10, 1)>>, totalTax |-> <<R(18, 1)>>,
     total |-> R(108, 1), paid |-> <<R(200, 1)>>]

\* The summary figures of the base scenario.
BaseSummary ==
    [subtotal |-> BaseOptions.subtotal, totalDiscount |-> BaseOptions.totalDiscount,
     totalTax |-> BaseOptions.totalTax, total |-> BaseOptions.total,
     paid |-> BaseOptions.paid]

\* Layout: header, title, order info, items, footer, width and indent.
InitLayout ==
    \E th \in {<< >>, TenantHeader},
       ti \in {<< >>, << << >> >>},
       info \in {<<<< >>, << >>>>, <<<<<<"A", "-", "1", "7">>>>, <<<<"A", "l", "i">>>>>>},
       ex \in {<< >>, ExtraRowShort \o ExtraRowsLong},
       it \in SeqsUpTo(ItemSet, MaxItems),
       msg \in {<<<< >>, << >>>>, <<<<<<"B", "o", "s">>>>, << << >> >>>>},
       size \in {<<12, 1>>, <<12, 6>>, <<32, 1>>},
       tgt \in {Undefined, "EUR"},
       sum \in {BaseSummary, FullSummary} :
        opts = [BaseOptions EXCEPT !.tenantHeaderLines = th, !.title = ti,
                                   !.orderNumber = info[1], !.sellerName = info[2],
                                   !.extraMetaRows = ex, !.items = it,
                                   !.itemsEmptyMessage = msg[1],
                                   !.thankYouMessage = msg[2],
                                   !.receiptWidth = size[1], !.receiptIndent = size[2],
                                   !.targetCurrency = tgt, !.rates = FullRates,
                                   !.subtotal = sum.subtotal,
                                   !.totalDiscount = sum.totalDiscount,
                                   !.totalTax = sum.totalTax, !.total = sum.total,
                                   !.paid = sum.paid, !.remaining = << >>]

MoneyAmounts ==
    {Zero, NaN, R(10, 1), R(-3, 1), R(4, 1000)}

RawCurrencies ==
    {Undefined, "usd", "EUR", "xyz"}

RateTables ==
    {NoRates, RatesOf(<< >>), FullRates, PartialRates, BadRates}

IdleMoneyCall ==
    [fn |-> "none", amount |-> Zero, code |-> "TRY", rates |-> NoRates,
     currency |-> Undefined, targetCurrency |-> Undefined, from |-> Undefined,
     summaryAlreadyTarget |-> FALSE]

WrapAlphabet ==
    {"a", "b", " ", "\t"}

\* All strings over alphabet of length at most k.
Texts(alphabet, k) ==
    SeqsUpTo(alphabet, k)

IdleWrapCall ==
    [fn |-> "none", value |-> << >>, width |-> 1]

(***************************************************************************)
(* The receipt builder: the caller holds an options record and calls one   *)
(* of the two entry points.  After the call, opts is the options record    *)
(* buildStandardReceiptLines received, lines is the array it returned and  *)
(* calls is the record of its pushResponsiveColumns calls.                 *)
(***************************************************************************)
MoneyIdle ==
    mcall = IdleMoneyCall /\ mret = Zero

WrapIdle ==
    wcall = IdleWrapCall /\ wret = << >>

ReceiptIdle ==
    pc = "idle" /\ opts = BaseOptions /\ lines = << >> /\ calls = << >>

Init ==
    /\ pc = "idle"
    /\ (InitPayment \/ InitDiscount \/ InitLayout)
    /\ lines = << >>
    /\ calls = << >>
    /\ MoneyIdle
    /\ WrapIdle

BuildStandard ==
    /\ pc = "idle"
    /\ \E st \in {buildStandardReceiptLines(opts)} :
           /\ lines' = st.lines
           /\ calls' = st.calls
    /\ pc' = "standard"
    /\ UNCHANGED <<opts, mcall, mret, wcall, wret>>

BuildSale ==
    /\ pc = "idle"
    /\ \E st \in {buildStandardReceiptLines(SaleOptions(opts))} :
           /\ lines' = st.lines
           /\ calls' = st.calls
    /\ opts' = SaleOptions(opts)
    /\ pc' = "sale"
    /\ UNCHANGED <<mcall, mret, wcall, wret>>

Next ==
    \/ BuildStandard
    \/ BuildSale

Spec ==
    Init /\ [][Next]_vars

(***************************************************************************)
(* The money helpers called on their own: toTRY, fromTRY and the two       *)
(* conversions of the builder.                                             *)
(***************************************************************************)
\* The options record the conversions read, for a call mcall.
ConvOptions(c) ==
    [BaseOptions EXCEPT !.currency = c.currency, !.targetCurrency = c.targetCurrency,
                        !.rates = c.rates, !.summaryAlreadyTarget = c.summaryAlreadyTarget]

InitMoney ==
    /\ \E a \in MoneyAmounts, cd \in Codes, rt \in RateTables, cur \in RawCurrencies,
          tgt \in RawCurrencies, fr \in RawCurrencies, sat \in BOOLEAN :
           mcall = [fn |-> "none", amount |-> a, code |-> cd, rates |-> rt,
                    currency |-> cur, targetCurrency |-> tgt, from |-> fr,
                    summaryAlreadyTarget |-> sat]
    /\ mret = Zero
    /\ ReceiptIdle
    /\ WrapIdle

CallToTRY ==
    /\ mcall.fn = "none"
    /\ mcall' = [mcall EXCEPT !.fn = "toTRY"]
    /\ mret' = toTRY(mcall.amount, mcall.code, mcall.rates)
    /\ UNCHANGED <<pc, opts, lines, calls, wcall, wret>>

CallFromTRY ==
    /\ mcall.fn = "none"
    /\ mcall' = [mcall EXCEPT !.fn = "fromTRY"]
    /\ mret' = fromTRY(mcall.amount, mcall.code, mcall.rates)
    /\ UNCHANGED <<pc, opts, lines, calls, wcall, wret>>

CallConvertAmount ==
    /\ mcall.fn = "none"
    /\ mcall' = [mcall EXCEPT !.fn = "convertAmount"]
    /\ mret' = convertAmount(mcall.amount, mcall.from, ConvOptions(mcall))
    /\ UNCHANGED <<pc, opts, lines, calls, wcall, wret>>

CallConvertSummaryAmount ==
    /\ mcall.fn = "none"
    /\ mcall' = [mcall EXCEPT !.fn = "convertSummaryAmount"]
    /\ mret' = convertSummaryAmount(mcall.amount, mcall.from, ConvOptions(mcall))
    /\ UNCHANGED <<pc, opts, lines, calls, wcall, wret>>

NextMoney ==
    \/ CallToTRY
    \/ CallFromTRY
    \/ CallConvertAmount
    \/ CallConvertSummaryAmount

SpecMoney ==
    InitMoney /\ [][NextMoney]_vars

(***************************************************************************)
(* wrapTextToWidth called on its own.                                      *)
(***************************************************************************)
InitWrap ==
    /\ \E v \in Texts(WrapAlphabet, MaxTextLen), w \in 1..MaxWrapWidth :
           wcall = [fn |-> "none", value |-> v, width |-> w]
    /\ wret = << >>
    /\ ReceiptIdle
    /\ MoneyIdle

CallWrap ==
    /\ wcall.fn = "none"
    /\ wcall' = [wcall EXCEPT !.fn = "wrapTextToWidth"]
    /\ wret' = wrapTextToWidth(wcall.value, wcall.width)
    /\ UNCHANGED <<pc, opts, lines, calls, mcall, mret>>

NextWrap ==
    CallWrap

SpecWrap ==
    InitWrap /\ [][NextWrap]_vars

(***************************************************************************)
(* Properties.  Built holds once an entry point has returned.              *)
(***************************************************************************)
Built ==
    pc \in {"standard", "sale"}

IsPrefix(pre, s) ==
    Len(pre) <= Len(s) /\ SubSeq(s, 1, Len(pre)) = pre

\* Indices of the pushResponsiveColumns calls whose trimmed left text is label.
CallsLabelled(label) ==
    {i \in 1..Len(calls) : Trim(calls[i].left) = label}

\* |v| >= 0.005, stated on the fraction itself.
Meaningful(v) ==
    v.d # 0 /\ 1000 * IAbs(v.n) >= 5 * v.d

\* The remaining amount the summary shows, before conversion.
ClaimedRemaining(o) ==
    IF o.remaining # << >> THEN RMax(o.remaining[1], Zero)
    ELSE RMax(RSub(o.total, IF o.paid # << >> THEN o.paid[1] ELSE o.total), Zero)

\* The index of the centered payment-summary subtitle.
SummaryHeaderAt ==
    CHOOSE h \in 1..Len(lines) :
        /\ lines[h].type = "text" /\ lines[h].preset = "medium"
        /\ lines[h] = toCenteredLine(LabelPaymentSummary, "medium", opts)

\* The index of the centered grand-total subtitle.
GrandTotalAt ==
    CHOOSE g \in 1..Len(lines) :
        /\ lines[g].type = "text" /\ lines[g].preset = "medium"
        /\ lines[g] = toCenteredLine(LabelGrandTotal, "medium", opts)

(* C1: buildStandardReceiptLines never emits the outstanding-debt row      *)
(* (label "Borc"): its condition asks for hasOutstandingDebt to be false   *)
(* and the resolved remaining amount to be meaningful, which never holds   *)
(* together; so no pushResponsiveColumns call carries the debt label and   *)
(* no returned line shows it, for every total, paid, remaining, rates and  *)
(* summaryAlreadyTarget.                                                   *)
C1_NoDebtRow ==
    Built =>
        /\ CallsLabelled(LabelDebt) = {}
        /\ \A i \in 1..Len(lines) : lines[i].left # LabelDebt /\ lines[i].text # LabelDebt

\* total = 100, paid = 40, remaining = 60: a meaningful debt, and a receipt built.
C1_Witness ==
    /\ pc = "standard"
    /\ opts.total = R(100, 1) /\ opts.paid = <<R(40, 1)>> /\ opts.remaining = <<R(60, 1)>>
    /\ Meaningful(convertSummaryAmount(ClaimedRemaining(opts), Undefined, opts))
    /\ lines[Len(lines) - 3] = UntypedLine(formatDisplayMoney(totalDisplay(opts), opts),
                                           Undefined, "large")

(* C2: every call of buildStandardReceiptLines emits the paid row (label   *)
(* "Odenen") exactly once, after the payment-summary header and before the *)
(* dotted separator that precedes the grand total; its amount is the       *)
(* converted total when the converted remaining amount is meaningful, and  *)
(* the resolved paid amount (paid, defaulting to total, converted from     *)
(* paidCurrency) otherwise.                                                *)
C2_PaidRow ==
    Built =>
        /\ Cardinality(CallsLabelled(LabelPaid)) = 1
        /\ \A i \in CallsLabelled(LabelPaid) :
            /\ calls[i].at >= SummaryHeaderAt + 1
            /\ calls[i].at + Len(calls[i].out) < GrandTotalAt - 1
            /\ SubSeq(lines, calls[i].at + 1, calls[i].at + Len(calls[i].out)) = calls[i].out
            /\ Len(calls[i].out) >= 1
            /\ calls[i].right =
                 formatDisplayMoney(
                     IF Meaningful(convertSummaryAmount(ClaimedRemaining(opts), Undefined, opts))
                     THEN convertSummaryAmount(opts.total, Undefined, opts)
                     ELSE convertSummaryAmount(IF opts.paid # << >> THEN opts.paid[1]
                                               ELSE opts.total,
                                               opts.paidCurrency, opts),
                     opts)

\* A receipt with a meaningful debt whose paid row shows the total, not the paid 40.
C2_Witness ==
    /\ Built
    /\ opts.paid = <<R(40, 1)>> /\ opts.total = R(100, 1) /\ opts.remaining = << >>
    /\ opts.targetCurrency = Undefined
    /\ \E i \in CallsLabelled(LabelPaid) : calls[i].right = <<"1", "0", "0", ".", "0", "0", " ", "T", "L">>

(* C3: negative remaining and negative change values are never displayed:  *)
(* no change row ("Para Ustu") and no debt row carries a negative amount,   *)
(* and a negative explicitly supplied changeAmount produces no change row.  *)
C3_NoNegativeRow ==
    Built =>
        /\ \A i \in CallsLabelled(LabelChange) \cup CallsLabelled(LabelDebt) :
               Head(calls[i].right) # "-"
        /\ (opts.changeAmount # << >> /\ RLt(opts.changeAmount[1], Zero))
               => CallsLabelled(LabelChange) = {}

(* C6: every call of pushResponsiveColumns, with l and r the trimmed left   *)
(* and right texts and available = max(receiptWidth - receiptIndent, 8):    *)
(* if Len(l) + Len(r) + 2 <= available it appends exactly one columns line  *)
(* holding l and r; otherwise it appends a text line holding l (when l is   *)
(* not empty) followed by a columns line with an empty left and right = r.  *)
ClaimedResponsive(left, right, preset, o) ==
    LET l == Trim(left)
        r == Trim(right)
        available == IMax(o.receiptWidth - o.receiptIndent, 8)
    IN  IF Len(l) + Len(r) + 2 <= available
        THEN <<ColumnsLine(l, r, o.receiptIndent, o.receiptWidth, preset)>>
        ELSE (IF l # << >> THEN <<TextLine(l, preset)>> ELSE << >>)
             \o <<ColumnsLine(<< >>, r, o.receiptIndent, o.receiptWidth, preset)>>

C6_ResponsiveColumns ==
    Built =>
        \A i \in 1..Len(calls) :
            /\ calls[i].out = ClaimedResponsive(calls[i].left, calls[i].right,
                                                calls[i].preset, opts)
            /\ SubSeq(lines, calls[i].at + 1, calls[i].at + Len(calls[i].out)) = calls[i].out
            /\ (i < Len(calls) => calls[i].at + Len(calls[i].out) <= calls[i + 1].at)

\* One receipt with a plain two-column row, a stacked row, a stacked row with
\* an empty left text, a padded label and a row that fills the width exactly.
C6_Witness ==
    /\ Built
    /\ \E i \in 1..Len(calls) :
           Len(calls[i].out) = 1 /\ calls[i].out[1].left # << >>
    /\ \E i \in 1..Len(calls) :
           Len(calls[i].out) = 2 /\ calls[i].out[1].type = "text"
    /\ \E i \in 1..Len(calls) :
           /\ calls[i].left = << >>
           /\ Len(calls[i].right) + 2 > availableWidth(opts)
           /\ Len(calls[i].out) = 1
    /\ \E i \in 1..Len(calls) : Trim(calls[i].left) # calls[i].left
    /\ \E i \in 1..Len(calls) :
           Len(Trim(calls[i].left)) + Len(Trim(calls[i].right)) + 2 = availableWidth(opts)

(* C7: a discount row is emitted if and only if |totalDiscount| >= 0.005;  *)
(* its label is "Indirim (%p)", p being |discount / subtotal * 100| as a   *)
(* decimal of at most 2 fraction digits, when |subtotal| >= 0.005, and the *)
(* bare "Indirim" otherwise; its amount starts with a minus sign.          *)
(* subtotal = 100, discount = 10 gives "Indirim (%10)"; subtotal = 0,      *)
(* discount = 10 gives "Indirim".                                          *)
DiscountCalls ==
    {i \in 1..Len(calls) : IsPrefix(LabelDiscount, calls[i].left)}

DigitValue(c) ==
    CHOOSE k \in 0..9 : Digit(k) = c

IsDigit(c) ==
    \E k \in 0..9 : Digit(k) = c

RECURSIVE DigitsValue(_)
DigitsValue(s) ==
    IF s = << >> THEN 0 ELSE 10 * DigitsValue(SubSeq(s, 1, Len(s) - 1)) + DigitValue(s[Len(s)])

\* 100 times the value of the decimal p, or -1 when p is not a decimal with
\* an integer part and at most two fraction digits.
Hundredths(p) ==
    LET dots == {i \in 1..Len(p) : p[i] = "."}
    IN  IF dots = {}
        THEN IF p # << >> /\ \A i \in 1..Len(p) : IsDigit(p[i])
             THEN 100 * DigitsValue(p) ELSE -1
        ELSE LET k == CHOOSE i \in dots : TRUE
                 int == SubSeq(p, 1, k - 1)
                 frac == SubSeq(p, k + 1, Len(p))
             IN  IF /\ Cardinality(dots) = 1
                    /\ int # << >> /\ Len(frac) \in {1, 2}
                    /\ \A i \in 1..Len(int) : IsDigit(int[i])
                    /\ \A i \in 1..Len(frac) : IsDigit(frac[i])
                 THEN 100 * DigitsValue(int)
                      + (IF Len(frac) = 1 THEN 10 * DigitsValue(frac) ELSE DigitsValue(frac))
                 ELSE -1

\* h is the integer nearest to |discount / subtotal| * 10000.
NearestPercentHundredths(h, discount, subtotal) ==
    LET num == 10000 * IAbs(discount.n) * subtotal.d
        den == discount.d * IAbs(subtotal.n)
    IN  2 * IAbs(h * den - num) <= den

SummaryRowRank(line) ==
    LET label == IF line.type = "columns" THEN line.left ELSE line.text
    IN  CASE label = LabelSubtotal -> 1
          [] IsPrefix(LabelDiscount, label) -> 2
          [] IsPrefix(LabelTax, label) -> 3
          [] label = LabelPaid -> 4
          [] label = LabelChange -> 5
          [] OTHER -> 0

\* The index of the separator that closes the order-info block: the last
\* separator before the one that opens the payment-summary header.
OrderInfoEndAt ==
    CHOOSE q \in 1..Len(lines) :
        \A h \in {SummaryHeaderAt} :
            /\ q <= h - 2
            /\ lines[q].type = "separator"
            /\ \A j \in (q + 1)..(h - 2) : lines[j].type # "separator"

C8_SectionOrder ==
    Built =>
        \A n \in {Len(lines)}, h \in {SummaryHeaderAt}, q \in {OrderInfoEndAt} :
        \A w \in {opts.receiptWidth},
           thanks \in {IF opts.thankYouMessage = << >> THEN DefaultThankYouMessage
                       ELSE opts.thankYouMessage[1]},
           title \in {IF opts.title = << >> THEN DefaultTitle ELSE opts.title[1]},
           p0 \in {IF opts.tenantHeaderLines # << >> THEN Len(opts.tenantHeaderLines) + 1
                   ELSE 0} :
        \A f \in {IF thanks # << >> THEN n - 2 ELSE n - 1},
           p1 \in {IF title # << >> THEN p0 + 2 ELSE p0} :
        \A rank \in {[i \in (h + 2)..(f - 4) |-> SummaryRowRank(lines[i])]} :
            /\ lines[n] = EmptyLine(30)
            /\ Cardinality({i \in 1..n : lines[i].type = "empty" /\ lines[i].count = 30}) = 1
            /\ thanks # << >> => lines[n - 1] = toCenteredLine(thanks, Undefined, opts)
            /\ lines[f] = EmptyLine(1)
            /\ lines[f - 1].preset = "large"
            /\ lines[f - 1].text
                 = formatDisplayMoney(convertSummaryAmount(opts.total, Undefined, opts), opts)
            /\ lines[f - 2] = toCenteredLine(LabelGrandTotal, "medium", opts)
            /\ lines[f - 3] = SeparatorLine(".", w)
            /\ p0 > 0 => /\ SubSeq(lines, 1, p0 - 1) = opts.tenantHeaderLines
                         /\ lines[p0] = SeparatorLine(Undefined, w)
            /\ title # << >> => /\ lines[p0 + 1] = toCenteredLine(title, "medium", opts)
                                /\ lines[p0 + 2] = SeparatorLine(Undefined, w)
            /\ lines[p1 + 1] = toCenteredLine(LabelOrderInfo, "medium", opts)
            /\ lines[p1 + 2] = SeparatorLine(".", w)
            /\ q > p1 + 3
            /\ \A i \in (p1 + 3)..(q - 1) : lines[i].type \in {"text", "columns"}
            /\ lines[q] = SeparatorLine(Undefined, w)
            /\ h - 2 > q
            /\ lines[q + 1].type = Undefined /\ lines[q + 1].align \in {"left", "center"}
            /\ \A i \in (q + 1)..(h - 2) :
                   \/ lines[i].type \in {Undefined, "text", "columns"}
                   \/ lines[i] = EmptyLine(1)
            /\ lines[h - 1] = SeparatorLine(Undefined, w)
            /\ lines[h + 1] = SeparatorLine(Undefined, w)
            /\ f - 4 >= h + 2
            /\ \A i \in (h + 2)..(f - 4) :
                /\ lines[i].type \in {"text", "columns"}
                /\ rank[i] = 0 =>
                       /\ lines[i].type = "columns" /\ lines[i].left = << >>
                       /\ i > h + 2
                       /\ lines[i - 1].type = "text" /\ rank[i - 1] > 0
                /\ \A j \in (i + 1)..(f - 4) :
                       (rank[i] > 0 /\ rank[j] > 0) => rank[i] < rank[j]
            /\ \E i \in (h + 2)..(f - 4) : rank[i] = 4

\* A receipt with every optional section: tenant header, title, order
\* number, two items, all five summary rows and the thank-you line.
C8_Witness ==
    /\ Built
    /\ opts.tenantHeaderLines = TenantHeader /\ opts.title = << >>
    /\ opts.orderNumber # << >> /\ Len(opts.items) = 2
    /\ opts.thankYouMessage = << >>
    /\ lines[Len(lines)] = EmptyLine(30)
    /\ lines[Len(lines) - 1] = toCenteredLine(DefaultThankYouMessage, Undefined, opts)
    /\ lines[1] = TenantHeader[1]
    /\ \A k \in 1..5 :
           \E i \in (SummaryHeaderAt + 2)..Len(lines) : SummaryRowRank(lines[i]) = k

(* C9: for n >= 1 items the item section is the items' blocks in input     *)
(* order, each block being the name line (the name, or "Urun" when it is   *)
(* empty; left-aligned, medium preset) followed by the responsive two-     *)
(* column output for "qty x unitPrice" / subtotal (subtotal defaulting to  *)
(* quantity * unitPrice), with a blank line of count 1 before every item   *)
(* except the first, n - 1 in all; for an empty list the section is one    *)
(* line carrying the empty-items message.                                  *)
ClaimedItemBlock(item, index, o) ==
    LET sub == IF item.subtotal # << >> THEN item.subtotal[1]
               ELSE RMul(R(item.quantity, 1), item.unitPrice)
    IN  (IF index > 1 THEN <<EmptyLine(1)>> ELSE << >>)
        \o <<UntypedLine(IF item.name = << >> THEN DefaultItemName ELSE item.name,
                         "left", "medium")>>
        \o ClaimedResponsive(
               IntToStr(item.quantity) \o <<" ", "x", " ">>
                   \o formatDisplayMoney(convertAmount(item.unitPrice, item.currency, o), o),
               formatDisplayMoney(convertAmount(sub, item.currency, o), o),
               Undefined, o)

RECURSIVE ClaimedItemBlocks(_, _, _)
ClaimedItemBlocks(items, index, o) ==
    IF index > Len(items) THEN << >>
    ELSE ClaimedItemBlock(items[index], index, o) \o ClaimedItemBlocks(items, index + 1, o)

ItemSection ==
    SubSeq(lines, OrderInfoEndAt + 1, SummaryHeaderAt - 2)

C9_ItemSection ==
    Built =>
        \A section \in {ItemSection} :
            IF Len(opts.items) = 0
            THEN /\ Len(section) = 1
                 /\ section[1].text = (IF opts.itemsEmptyMessage = << >>
                                       THEN DefaultItemsEmptyMessage
                                       ELSE opts.itemsEmptyMessage[1])
            ELSE /\ section = ClaimedItemBlocks(opts.items, 1, opts)
                 /\ Cardinality({i \in 1..Len(section) : section[i] = EmptyLine(1)})
                      = Len(opts.items) - 1

\* Two items, the second one unnamed with its own subtotal, converted to EUR.
C9_Witness ==
    /\ Built
    /\ opts.items = <<ItemLongName, ItemUnnamed>>
    /\ opts.targetCurrency = "EUR" /\ opts.receiptWidth = 32 /\ opts.receiptIndent = 1
    /\ Len(ItemSection) = 5
    /\ ItemSection[3] = EmptyLine(1)
    /\ ItemSection[4].text = DefaultItemName
    /\ ItemSection[5].left = <<"1", " ", "x", " ", "5", ".", "0", "0", " ", "E", "U", "R">> /\ ItemSection[5].right = <<"6", ".", "0", "0", " ", "E", "U", "R">>

(* C4: for a non-TRY code and a non-zero amount, when the rate table is    *)
(* missing or has no entry or a non-positive entry for the code, toTRY     *)
(* returns exactly 0 and fromTRY returns the amount unchanged; for code    *)
(* TRY both return the amount unchanged; for amount 0 both return 0.       *)
\* The table has no entry, or a non-positive one, for the code.
NoUsableRate(code, rates) ==
    \/ ~rates.present
    \/ code \notin DOMAIN rates.tab
    \/ (rates.tab[code].d # 0 /\ rates.tab[code].n <= 0)

C4_MissingRate ==
    (mcall.fn \in {"toTRY", "fromTRY"} /\ mcall.amount.d # 0) =>
        IF mcall.amount.n = 0 THEN mret = R(0, 1)
        ELSE IF mcall.code = "TRY" THEN mret = mcall.amount
        ELSE NoUsableRate(mcall.code, mcall.rates) =>
                 mret = (IF mcall.fn = "toTRY" THEN R(0, 1) ELSE mcall.amount)

\* toTRY of 10 EUR with a table that has no EUR entry has returned 0.
C4_Witness ==
    /\ mcall.fn = "toTRY" /\ mcall.code = "EUR" /\ mcall.rates = PartialRates
    /\ mcall.amount = R(10, 1) /\ mret = R(0, 1)

\* fromTRY of 10 with a negative EUR entry has returned 10 unchanged.
C4_WitnessFrom ==
    /\ mcall.fn = "fromTRY" /\ mcall.code = "EUR" /\ mcall.rates = BadRates
    /\ mcall.amount = R(10, 1) /\ mret = R(10, 1)

(* C10: convertAmount returns the non-finite-guarded amount unchanged when *)
(* the normalized source equals the normalized target, when no rate table  *)
(* is supplied, or when the amount is 0; toTRY(amount, source) when the    *)
(* target is TRY; fromTRY(amount, target) when the source is TRY; and      *)
(* fromTRY(toTRY(amount, source), target) otherwise.  convertSummaryAmount *)
(* returns the guarded amount when summaryAlreadyTarget is true and is the *)
(* same pivot otherwise.                                                   *)
\* The four known codes, written in either case; anything else is TRY.
ClaimedCode(raw) ==
    CASE raw \in {"usd", "USD"} -> "USD"
      [] raw \in {"eur", "EUR"} -> "EUR"
      [] raw \in {"gbp", "GBP"} -> "GBP"
      [] OTHER -> "TRY"

ClaimedPivot(c) ==
    LET amount == IF c.amount.d = 0 THEN R(0, 1) ELSE c.amount
        source == ClaimedCode(IF c.from # Undefined THEN c.from
                              ELSE IF c.currency # Undefined THEN c.currency ELSE "TRY")
        target == ClaimedCode(c.targetCurrency)
    IN  IF source = target \/ ~c.rates.present \/ amount = R(0, 1) THEN amount
        ELSE IF target = "TRY" THEN toTRY(amount, source, c.rates)
        ELSE IF source = "TRY" THEN fromTRY(amount, target, c.rates)
        ELSE fromTRY(toTRY(amount, source, c.rates), target, c.rates)

C10_ConversionPivot ==
    /\ mcall.fn = "convertAmount" => mret = ClaimedPivot(mcall)
    /\ mcall.fn = "convertSummaryAmount" =>
           mret = (IF mcall.summaryAlreadyTarget
                   THEN (IF mcall.amount.d = 0 THEN R(0, 1) ELSE mcall.amount)
                   ELSE ClaimedPivot(mcall))

\* 10 USD shown in EUR with rates 2 and 4: 10 * 2 / 4 = 5, through both steps.
C10_Witness ==
    /\ mcall.fn = "convertAmount"
    /\ mcall.from = "usd" /\ mcall.targetCurrency = "EUR" /\ mcall.rates = FullRates
    /\ mcall.amount = R(10, 1) /\ mret = R(5, 1)

(* C5: wrapTextToWidth never splits a word: every output line is the       *)
(* single-space join of consecutive whitespace-delimited words of the      *)
(* input, the lines joined by single spaces give the whitespace-normalized *)
(* input, a line of more than one word is no longer than width, and a word *)
(* longer than width stands alone on its line.                             *)
RECURSIVE WordsOf(_)
WordsOf(s) ==
    IF s = << >> THEN << >>
    ELSE IF Head(s) \in {" ", "\t"} THEN WordsOf(Tail(s))
    ELSE LET stops == {i \in 1..Len(s) : s[i] \in {" ", "\t"}}
             end == IF stops = {} THEN Len(s) + 1
                    ELSE CHOOSE i \in stops : \A j \in stops : i <= j
         IN  <<SubSeq(s, 1, end - 1)>> \o WordsOf(SubSeq(s, end, Len(s)))

RECURSIVE JoinSpace(_)
JoinSpace(parts) ==
    IF parts = << >> THEN << >>
    ELSE IF Len(parts) = 1 THEN parts[1]
    ELSE parts[1] \o <<" ">> \o JoinSpace(Tail(parts))

RECURSIVE Flatten(_)
Flatten(seqs) ==
    IF seqs = << >> THEN << >> ELSE Head(seqs) \o Flatten(Tail(seqs))

C5_WrapKeepsWords ==
    wcall.fn = "wrapTextToWidth" =>
        LET lineWords == [i \in 1..Len(wret) |-> WordsOf(wret[i])]
        IN  /\ \A i \in 1..Len(wret) : lineWords[i] # << >> /\ wret[i] = JoinSpace(lineWords[i])
            /\ Flatten(lineWords) = WordsOf(wcall.value)
            /\ JoinSpace(wret) = JoinSpace(WordsOf(wcall.value))
            /\ \A i \in 1..Len(wret) :
                /\ Len(lineWords[i]) > 1 => Len(wret[i]) <= wcall.width
                /\ \A k \in 1..Len(lineWords[i]) :
                       Len(lineWords[i][k]) > wcall.width => Len(lineWords[i]) = 1

=============================================================================
